---- MODULE Spec2Model ----
(***************************************************************************)
(* Model of the review check-in plugin (src/main.py, class FuPanPlugin):   *)
(* the calendar adapter, the check-in window resolver, the two streak      *)
(* algorithms, the one-file-per-ledger record store and the command        *)
(* handlers that orchestrate them.                                         *)
(*                                                                         *)
(* Dates are day numbers (datetime.date), instants are hour numbers        *)
(* (datetime), "%Y-%m-%d" strings are <<year, month, day>> triples, "%H:%M" *)
(* strings are TLA+ strings, file names and ids are sequences of tokens.   *)
(***************************************************************************)
EXTENDS Integers, Sequences, FiniteSets, TLC

VARIABLES
    now,             \* datetime.now(): the wall clock, in hours since day 0 00:00
    config,          \* self.config (read-only plugin configuration)
    files,           \* data_dir: file name -> <<>> (absent) or <<ledger>>
    group_sessions,  \* self.group_sessions: group id -> unified_msg_origin
    xcalDown,        \* the lookups of the exchange calendar that raise; with
                     \* "non_session_date", previous_session and next_session
                     \* raise when asked about a date that is not a session
    window_status,   \* <<>> or <<the status dict the window resolver returned>>
    last,            \* the command handled since the clock last advanced, and
                     \* the counts of its ledger before it was handled
    returned,        \* <<>> or <<name, arguments, value>>: what the method
                     \* called last returned
    tasks            \* the coroutines that are suspended or about to run: the
                     \* frame of each, by name

vars == <<now, config, files, group_sessions, xcalDown, window_status, last, returned,
          tasks>>

(***************************************************************************)
(* Bounds of the model.                                                    *)
(***************************************************************************)
MaxDay == 6          \* the clock runs over days 0 .. MaxDay
MaxCheckins == 3     \* the data directory holds at most this many records

(***************************************************************************)
(* datetime / date / time values.                                          *)
(***************************************************************************)
HoursPerDay == 24
None == <<>>                       \* None where a string or a dict is expected
NoDT == -100000                    \* None where a datetime is expected

Combine(date, hour) == date * HoursPerDay + hour      \* datetime.combine
DateOf(dt) == dt \div HoursPerDay                     \* datetime.date()
HourOf(dt) == dt % HoursPerDay                        \* datetime.time()

\* Day 0 is Friday 2024-12-27; the model's dates run into January 2025.
\* FormatDate is strftime("%Y-%m-%d"), ParseDate is strptime(_, "%Y-%m-%d").
FormatDate(d) ==
    IF d <= 4 THEN <<2024, 12, 27 + d>> ELSE <<2025, 1, d - 4>>
ParseDate(s) ==
    IF s[1] = 2024 THEN s[3] - 27 ELSE s[3] + 4

\* "%H:%M" strings the configuration may carry, and what strptime makes of them.
TimeStrings == {"08:00", "09:00", "10:00", "15:00", "16:00"}
ParseTime(s) ==
    CASE s = "08:00" -> 8
      [] s = "09:00" -> 9
      [] s = "10:00" -> 10
      [] s = "15:00" -> 15
      [] s = "16:00" -> 16

(***************************************************************************)
(* The exchange calendar (self.xcal): Saturdays, Sundays and the holidays  *)
(* are closed.  Day 5 is Wednesday 2025-01-01, New Year's Day.             *)
(***************************************************************************)
Holidays == {5}
Weekday(d) == ((d % 7) + 7) % 7          \* 0 = Friday, 1 = Saturday, 2 = Sunday
XcalIsSession(d) == Weekday(d) \notin {1, 2} /\ d \notin Holidays
LookAround == 7                          \* no closure lasts a week
XcalPreviousSession(d) ==
    CHOOSE s \in (d - LookAround)..(d - 1) :
        XcalIsSession(s) /\ \A x \in (s + 1)..(d - 1) : ~XcalIsSession(x)
XcalNextSession(d) ==
    CHOOSE s \in (d + 1)..(d + LookAround) :
        XcalIsSession(s) /\ \A x \in (d + 1)..(s - 1) : ~XcalIsSession(x)

(***************************************************************************)
(* Calendar adapter: every failure of the calendar is mapped to a default. *)
(***************************************************************************)
\* is_trading_day, taking a day for a session when the calendar fails
is_trading_day_unless_known(date) ==
    IF "is_session" \notin xcalDown THEN XcalIsSession(DateOf(date)) ELSE TRUE

is_trading_day(date) ==
    IF "is_session" \notin xcalDown THEN XcalIsSession(DateOf(date)) ELSE FALSE

\* whether a lookup of the session before or after the date raises
Raises(lookup, date) ==
    \/ lookup \in xcalDown
    \/ "non_session_date" \in xcalDown /\ ~XcalIsSession(DateOf(date))

get_previous_trading_day(date) ==
    IF ~Raises("previous_session", date)
    THEN Combine(XcalPreviousSession(DateOf(date)), 0) ELSE NoDT

get_next_trading_day(date) ==
    IF ~Raises("next_session", date)
    THEN Combine(XcalNextSession(DateOf(date)), 0) ELSE NoDT

(***************************************************************************)
(* Window configuration.  A dict is a function; a missing key is a missing *)
(* element of its domain.                                                  *)
(***************************************************************************)
HasKey(dict, key) == key \in DOMAIN dict
IsWindow(c) == HasKey(c, "start_time") /\ HasKey(c, "end_time")
IsSet(id) == id # <<>>                   \* truthiness of an id string

DefaultStart == "15:00"
DefaultEnd == "09:00"

\* get_time_window_for_context, looking up the group overrides without
\* asking whether the request has a group id
get_time_window_ignoring_scope(user_id, group_id) ==
    IF /\ HasKey(config, "fupan_checkin_group_time_windows")
       /\ HasKey(config["fupan_checkin_group_time_windows"], group_id)
       /\ IsWindow(config["fupan_checkin_group_time_windows"][group_id])
    THEN <<config["fupan_checkin_group_time_windows"][group_id]["start_time"],
           config["fupan_checkin_group_time_windows"][group_id]["end_time"]>>
    ELSE IF /\ HasKey(config, "fupan_checkin_user_time_windows")
            /\ HasKey(config["fupan_checkin_user_time_windows"], user_id)
            /\ IsWindow(config["fupan_checkin_user_time_windows"][user_id])
    THEN <<config["fupan_checkin_user_time_windows"][user_id]["start_time"],
           config["fupan_checkin_user_time_windows"][user_id]["end_time"]>>
    ELSE <<IF HasKey(config, "fupan_checkin_start_time")
              THEN config["fupan_checkin_start_time"] ELSE DefaultStart,
           IF HasKey(config, "fupan_checkin_end_time")
              THEN config["fupan_checkin_end_time"] ELSE DefaultEnd>>

get_time_window_for_context(user_id, group_id) ==
    IF /\ IsSet(group_id)
       /\ HasKey(config, "fupan_checkin_group_time_windows")
       /\ HasKey(config["fupan_checkin_group_time_windows"], group_id)
       /\ IsWindow(config["fupan_checkin_group_time_windows"][group_id])
    THEN <<config["fupan_checkin_group_time_windows"][group_id]["start_time"],
           config["fupan_checkin_group_time_windows"][group_id]["end_time"]>>
    ELSE IF /\ HasKey(config, "fupan_checkin_user_time_windows")
            /\ HasKey(config["fupan_checkin_user_time_windows"], user_id)
            /\ IsWindow(config["fupan_checkin_user_time_windows"][user_id])
    THEN <<config["fupan_checkin_user_time_windows"][user_id]["start_time"],
           config["fupan_checkin_user_time_windows"][user_id]["end_time"]>>
    ELSE <<IF HasKey(config, "fupan_checkin_start_time")
              THEN config["fupan_checkin_start_time"] ELSE DefaultStart,
           IF HasKey(config, "fupan_checkin_end_time")
              THEN config["fupan_checkin_end_time"] ELSE DefaultEnd>>

(***************************************************************************)
(* Window resolver.  The result is the status dict of the code; a bound    *)
(* that is None is NoDT.                                                   *)
(***************************************************************************)
NoStatus == <<>>                         \* nothing resolved yet

NoWindowStatus(next_trading_day) ==
    [is_trading_day |-> FALSE, is_in_checkin_window |-> FALSE,
     checkin_start |-> NoDT, checkin_end |-> NoDT,
     next_trading_day |-> next_trading_day]

\* TradingDayEnd, reading "the end is on the second day" as the next calendar day
TradingDayEndTomorrow(today, start_time, end_time, next_trading_day) ==
    IF end_time < start_time
    THEN Combine(today + 1, end_time)
    ELSE Combine(today, end_time)

\* checkin_end on a trading day
TradingDayEnd(today, start_time, end_time, next_trading_day) ==
    IF end_time < start_time
    THEN Combine(IF next_trading_day # NoDT THEN DateOf(next_trading_day) ELSE today,
                 end_time)
    ELSE Combine(today, end_time)

\* the branch taken when today is a trading day
TradingDayStatus(t, start_time, end_time) ==
    LET today == DateOf(t)
        next_trading_day == get_next_trading_day(t)
        checkin_start == Combine(today, start_time)
        checkin_end == TradingDayEnd(today, start_time, end_time, next_trading_day)
    IN [is_trading_day |-> TRUE,
        is_in_checkin_window |-> checkin_start <= t /\ t <= checkin_end,
        checkin_start |-> checkin_start, checkin_end |-> checkin_end,
        next_trading_day |-> next_trading_day]

\* ClosedDayStatus, anchoring the window at today instead of the last session
ClosedDayStatusFromToday(t, start_time, end_time) ==
    LET next_trading_day == get_next_trading_day(t)
    IN IF next_trading_day = NoDT
       THEN NoWindowStatus(next_trading_day)
       ELSE LET previous_trading_day == get_previous_trading_day(next_trading_day)
            IN IF previous_trading_day = NoDT
               THEN NoWindowStatus(next_trading_day)
               ELSE LET checkin_start == Combine(DateOf(t), start_time)
                        checkin_end == Combine(DateOf(next_trading_day), end_time)
                    IN [is_trading_day |-> FALSE,
                        is_in_checkin_window |-> checkin_start <= t /\ t <= checkin_end,
                        checkin_start |-> checkin_start, checkin_end |-> checkin_end,
                        next_trading_day |-> next_trading_day]

\* the branch taken when today is not a trading day
ClosedDayStatus(t, start_time, end_time) ==
    LET next_trading_day == get_next_trading_day(t)
    IN IF next_trading_day = NoDT
       THEN NoWindowStatus(next_trading_day)
       ELSE LET previous_trading_day == get_previous_trading_day(next_trading_day)
            IN IF previous_trading_day = NoDT
               THEN NoWindowStatus(next_trading_day)
               ELSE LET checkin_start == Combine(DateOf(previous_trading_day), start_time)
                        checkin_end == Combine(DateOf(next_trading_day), end_time)
                    IN [is_trading_day |-> FALSE,
                        is_in_checkin_window |-> checkin_start <= t /\ t <= checkin_end,
                        checkin_start |-> checkin_start, checkin_end |-> checkin_end,
                        next_trading_day |-> next_trading_day]

get_current_trading_status(user_id, group_id, t) ==
    LET window == get_time_window_for_context(user_id, group_id)
        start_time == ParseTime(window[1])
        end_time == ParseTime(window[2])
    IN IF is_trading_day(t)
       THEN TradingDayStatus(t, start_time, end_time)
       ELSE ClosedDayStatus(t, start_time, end_time)

(***************************************************************************)
(* Record store: one file per (user_id, scope).                            *)
(***************************************************************************)
get_checkin_data_file(user_id, group_id) ==
    IF IsSet(group_id)
    THEN <<"checkin_">> \o user_id \o <<"_group_">> \o group_id \o <<".json">>
    ELSE <<"checkin_">> \o user_id \o <<"_dm", ".json">>

EndsWith(s, suffix) ==
    /\ Len(suffix) <= Len(s)
    /\ SubSeq(s, Len(s) - Len(suffix) + 1, Len(s)) = suffix
Contains(s, part) ==
    \E i \in 1..(Len(s) - Len(part) + 1) : SubSeq(s, i, i + Len(part) - 1) = part

EmptyLedger(user_id) ==
    [user_id |-> user_id, nickname |-> "", checkins |-> <<>>,
     total_count |-> 0, strike_count |-> 0]

Exists(file) == files[file] # <<>>

\* A file holds a ledger, or bytes that do not make one: a JSON text cut
\* short, bytes that are not UTF-8, the JSON text null, or a file that cannot
\* be opened.
CorruptPayloads == {"truncated", "not utf-8", "null", "no permission"}
Corrupt(kind) == [corrupt |-> kind]
IsCorrupt(data) == HasKey(data, "corrupt")

\* the exception that open, json.load or the test for strike_count raises
ReadError(data) ==
    CASE data.corrupt = "no permission" -> "OSError"
      [] data.corrupt = "truncated" -> "JSONDecodeError"
      [] data.corrupt = "not utf-8" -> "UnicodeDecodeError"
      [] data.corrupt = "null" -> "TypeError"

CaughtOnLoad == {"OSError", "IOError", "JSONDecodeError"}
Raised(exception) == [raised |-> exception]

load_user_checkin_data(user_id, group_id) ==
    LET data_file == get_checkin_data_file(user_id, group_id)
    IN IF Exists(data_file)
       THEN LET data == files[data_file][1]
            IN IF IsCorrupt(data)
               THEN IF ReadError(data) \in CaughtOnLoad
                    THEN EmptyLedger(user_id)
                    ELSE Raised(ReadError(data))
               ELSE IF HasKey(data, "strike_count")
               THEN data
               ELSE data @@ [strike_count |-> 0]
       ELSE EmptyLedger(user_id)

\* the store after save_user_checkin_data(user_id, data, group_id)
save_user_checkin_data(user_id, data, group_id) ==
    [files EXCEPT ![get_checkin_data_file(user_id, group_id)] = <<data>>]

get_all_checkin_files ==
    {f \in DOMAIN files : Exists(f) /\ f[1] = "checkin_" /\ EndsWith(f, <<".json">>)}


\* the store after the files of the set are removed
Remove(removed) == [f \in DOMAIN files |-> IF f \in removed THEN <<>> ELSE files[f]]

(***************************************************************************)
(* Eligibility.                                                            *)
(***************************************************************************)
\* HasCheckinOn, comparing the wrong field of the records
HasCheckinForTradingDay(checkins, today_str) ==
    \E i \in 1..Len(checkins) : checkins[i].trading_day = today_str

HasCheckinOn(checkins, today_str) ==
    \E i \in 1..Len(checkins) : checkins[i].date = today_str

\* can_user_checkin without the test of the window
can_user_checkin_any_time(user_id, group_id, t) ==
    LET user_data == load_user_checkin_data(user_id, group_id)
    IN IF HasCheckinOn(user_data.checkins, FormatDate(DateOf(t)))
       THEN <<FALSE, "already reviewed">>
       ELSE <<TRUE, "ok">>

can_user_checkin(user_id, group_id, t) ==
    LET status == get_current_trading_status(user_id, group_id, t)
        user_data == load_user_checkin_data(user_id, group_id)
    IN IF ~status.is_in_checkin_window
       THEN IF status.checkin_start # NoDT /\ status.checkin_end # NoDT
            THEN <<FALSE, "outside window">>
            ELSE <<FALSE, "no window">>
       ELSE IF HasCheckinOn(user_data.checkins, FormatDate(DateOf(t)))
       THEN <<FALSE, "already reviewed">>
       ELSE <<TRUE, "ok">>

(***************************************************************************)
(* Streak engine, from scratch.                                            *)
(***************************************************************************)
Min(S) == CHOOSE x \in S : \A y \in S : x <= y

RECURSIVE Sorted(_)
Sorted(S) == IF S = {} THEN <<>> ELSE <<Min(S)>> \o Sorted(S \ {Min(S)})

\* CountBack without the exemption of the first iteration
RECURSIVE CountBackNoFirst(_, _, _, _)
CountBackNoFirst(dates, i, strike_count, current_date) ==
    IF i = 0 THEN strike_count
    ELSE IF current_date - dates[i] = 1
    THEN CountBackNoFirst(dates, i - 1, strike_count + 1, dates[i])
    ELSE strike_count

\* the loop over reversed(trading_day_dates), from index i downwards
RECURSIVE CountBack(_, _, _, _)
CountBack(dates, i, strike_count, current_date) ==
    IF i = 0 THEN strike_count
    ELSE IF strike_count = 0 \/ current_date - dates[i] = 1
    THEN CountBack(dates, i - 1, strike_count + 1, dates[i])
    ELSE strike_count

calculate_simple_strike_count(checkins) ==
    IF checkins = <<>> THEN 0
    ELSE LET trading_days_checked_in ==
                 {checkins[i].trading_day : i \in 1..Len(checkins)} \ {None}
             trading_day_dates ==
                 Sorted({ParseDate(day) : day \in trading_days_checked_in})
         IN IF trading_days_checked_in = {} THEN 0
            ELSE CountBack(trading_day_dates, Len(trading_day_dates), 0,
                           trading_day_dates[Len(trading_day_dates)])

(***************************************************************************)
(* The universe of the model: who sends commands, from where, and what the *)
(* configuration may be.                                                   *)
(***************************************************************************)
UserIds == {<<"u1">>}
GroupIds == {<<"g1">>}
Scopes == GroupIds \cup {<<>>}           \* <<>>: a direct message, no group id
Nicknames == {"neo"}
Conclusions == {"buy"}
Origins == {"bot:GroupMessage:1"}

FileNames == {get_checkin_data_file(u, g) : u \in UserIds, g \in Scopes}

\* nothing configured: 15:00-09:00 everywhere
OvernightConfig == << >>
\* 16:00-08:00 by default, 10:00-16:00 (a same-day window) in the groups
GroupOverrideConfig ==
    [fupan_checkin_start_time |-> "16:00", fupan_checkin_end_time |-> "08:00",
     fupan_checkin_group_time_windows |->
        [g \in GroupIds |-> [start_time |-> "10:00", end_time |-> "16:00"]]]

RECURSIVE Sum(_)
Sum(S) == IF S = {} THEN 0
          ELSE LET x == CHOOSE y \in S : TRUE IN x[2] + Sum(S \ {x})
\* the number of records in the data directory
StoredRecords ==
    Sum({<<f, Len(files[f][1].checkins)>> : f \in {x \in DOMAIN files : files[x] # <<>>}})

Clock == {Combine(d, h) : d \in 0..MaxDay, h \in {8, 16}}

(***************************************************************************)
(* /复盘: the check-in handler.                                            *)
(***************************************************************************)
\* the session a check-in at t counts for, as a date string
\* TradingDayOf, filing every check-in under the date it is made on
TradingDayToday(t) == FormatDate(DateOf(t))

TradingDayOf(t) ==
    IF ~is_trading_day(t) /\ get_previous_trading_day(t) # NoDT
    THEN FormatDate(DateOf(get_previous_trading_day(t)))
    ELSE FormatDate(DateOf(t))

NextTradingDayOf(t) ==
    LET next_trading_day_obj ==
            IF ~is_trading_day(t)
            THEN get_next_trading_day(IF get_previous_trading_day(t) # NoDT
                                      THEN get_previous_trading_day(t) ELSE t)
            ELSE get_next_trading_day(t)
    IN IF next_trading_day_obj # NoDT
       THEN FormatDate(DateOf(next_trading_day_obj)) ELSE None

CheckinRecord(group_id, t, conclusion) ==
    [date |-> FormatDate(DateOf(t)),
     timestamp |-> t,
     trading_day |-> TradingDayOf(t),
     next_trading_day |-> NextTradingDayOf(t),
     context |-> IF IsSet(group_id) THEN "group" ELSE "private",
     conclusion |-> conclusion]

\* UpdatedStrike, taking "consecutive" to mean the next calendar day
UpdatedStrikeByCalendarDay(user_data, trading_day) ==
    IF Len(user_data.checkins) > 0
    THEN LET previous_checkin == user_data.checkins[Len(user_data.checkins)]
         IN IF trading_day = previous_checkin.trading_day
            THEN user_data.strike_count
            ELSE IF ParseDate(trading_day) = ParseDate(previous_checkin.trading_day) + 1
            THEN user_data.strike_count + 1
            ELSE 1
    ELSE 1

\* the incremental streak update against the last record of the ledger
UpdatedStrike(user_data, trading_day) ==
    IF Len(user_data.checkins) > 0
    THEN LET previous_checkin == user_data.checkins[Len(user_data.checkins)]
         IN IF trading_day = previous_checkin.trading_day
            THEN user_data.strike_count
            ELSE IF /\ previous_checkin.next_trading_day # None
                    /\ trading_day = previous_checkin.next_trading_day
            THEN user_data.strike_count + 1
            ELSE 1
    ELSE 1

\* CheckedIn, putting the new record in front of the others
CheckedInAtFront(user_data, group_id, nickname, t, conclusion) ==
    LET checkin_record == CheckinRecord(group_id, t, conclusion)
        checkins == <<checkin_record>> \o user_data.checkins
    IN [user_data EXCEPT
            !.nickname = nickname,
            !.strike_count = UpdatedStrike(user_data, checkin_record.trading_day),
            !.checkins = checkins,
            !.total_count = Len(checkins)]

\* the ledger the handler saves for an accepted check-in
CheckedIn(user_data, group_id, nickname, t, conclusion) ==
    LET checkin_record == CheckinRecord(group_id, t, conclusion)
        checkins == Append(user_data.checkins, checkin_record)
    IN [user_data EXCEPT
            !.nickname = nickname,
            !.strike_count = UpdatedStrike(user_data, checkin_record.trading_day),
            !.checkins = checkins,
            !.total_count = Len(checkins)]

Seen(op, user_id, group_id, arg, ok, count) ==
    [op |-> op, user_id |-> user_id, group_id |-> group_id, arg |-> arg, ok |-> ok,
     total_count |-> load_user_checkin_data(user_id, group_id).total_count,
     strike_count |-> load_user_checkin_data(user_id, group_id).strike_count,
     count |-> count]

fupan_checkin(user_id, group_id, nickname, conclusion, origin) ==
    LET can == can_user_checkin(user_id, group_id, now)
        user_data == load_user_checkin_data(user_id, group_id)
    IN /\ can[1] => StoredRecords < MaxCheckins
       /\ last' = Seen("checkin", user_id, group_id, <<origin>>, can[1], 0)
       /\ IF ~can[1]
          THEN UNCHANGED <<files, group_sessions>>
          ELSE /\ files' = save_user_checkin_data(user_id,
                               CheckedIn(user_data, group_id, nickname, now, conclusion),
                               group_id)
               /\ group_sessions' = IF IsSet(group_id)
                                    THEN (group_id :> origin) @@ group_sessions
                                    ELSE group_sessions
       /\ UNCHANGED <<now, config, xcalDown, window_status, returned, tasks>>

(***************************************************************************)
(* /复盘撤销: the revoke handler.                                          *)
(***************************************************************************)
\* Revoked, forgetting to refresh total_count after the pop
RevokedStaleTotal(user_data) ==
    LET checkins == SubSeq(user_data.checkins, 1, Len(user_data.checkins) - 1)
    IN [user_data EXCEPT
            !.checkins = checkins,
            !.strike_count = IF Len(checkins) > 0
                             THEN calculate_simple_strike_count(checkins)
                             ELSE 0]

Revoked(user_data) ==
    LET checkins == SubSeq(user_data.checkins, 1, Len(user_data.checkins) - 1)
    IN [user_data EXCEPT
            !.checkins = checkins,
            !.total_count = Len(checkins),
            !.strike_count = IF Len(checkins) > 0
                             THEN calculate_simple_strike_count(checkins)
                             ELSE 0]

fupan_revoke(user_id, group_id) ==
    LET user_data == load_user_checkin_data(user_id, group_id)
    IN /\ last' = Seen("revoke", user_id, group_id, <<>>, user_data.checkins # <<>>, 0)
       /\ IF user_data.checkins = <<>>
          THEN UNCHANGED files
          ELSE files' = save_user_checkin_data(user_id, Revoked(user_data), group_id)
       /\ UNCHANGED <<now, config, group_sessions, xcalDown, window_status, returned, tasks>>

(***************************************************************************)
(* /复盘重置: the reset handler.  arg is <<"dm">>, <<"current">>,          *)
(* <<"group">> \o id, or anything else (which prints the usage).           *)
(***************************************************************************)
\* the files it removes
reset_group_data(group_id) ==
    {f \in get_all_checkin_files : Contains(f, <<"_group_">> \o group_id \o <<".json">>)}
reset_all_dm_data == {f \in get_all_checkin_files : EndsWith(f, <<"_dm", ".json">>)}

ResetTargets(group_id, arg) ==
    IF arg = <<"dm">> THEN reset_all_dm_data
    ELSE IF arg = <<"current">> /\ IsSet(group_id) THEN reset_group_data(group_id)
    ELSE IF Len(arg) > 1 /\ arg[1] = "group" THEN reset_group_data(Tail(arg))
    ELSE {}


\* fupan_reset, dropping the session of a group whose data it resets
fupan_reset_and_unregister(user_id, group_id, arg) ==
    LET target == IF arg = <<"current">> /\ IsSet(group_id) THEN {group_id}
                  ELSE IF Len(arg) > 1 /\ arg[1] = "group" THEN {Tail(arg)}
                  ELSE {}
    IN /\ last' = Seen("reset", user_id, group_id, arg, ResetTargets(group_id, arg) # {},
                       Cardinality(ResetTargets(group_id, arg)))
       /\ files' = Remove(ResetTargets(group_id, arg))
       /\ group_sessions' = [g \in DOMAIN group_sessions \ target |-> group_sessions[g]]
       /\ UNCHANGED <<now, config, xcalDown, window_status, returned, tasks>>

fupan_reset(user_id, group_id, arg) ==
    /\ last' = Seen("reset", user_id, group_id, arg, ResetTargets(group_id, arg) # {},
                    Cardinality(ResetTargets(group_id, arg)))
    /\ files' = Remove(ResetTargets(group_id, arg))
    /\ UNCHANGED <<now, config, group_sessions, xcalDown, window_status, returned, tasks>>

(***************************************************************************)
(* /复盘统计: the stats handler.  It replies with the two counters and the  *)
(* dates of the ten latest records, latest first.                          *)
(***************************************************************************)
RecentLimit == 10

\* sorted(checkins, key = date, reverse = True): stable, latest date first
RECURSIVE InsertByDate(_, _)
InsertByDate(sorted, checkin) ==
    IF sorted = <<>> THEN <<checkin>>
    ELSE IF ParseDate(Head(sorted).date) >= ParseDate(checkin.date)
    THEN <<Head(sorted)>> \o InsertByDate(Tail(sorted), checkin)
    ELSE <<checkin>> \o sorted

RECURSIVE SortByDate(_)
SortByDate(checkins) ==
    IF checkins = <<>> THEN <<>>
    ELSE InsertByDate(SortByDate(SubSeq(checkins, 1, Len(checkins) - 1)),
                      checkins[Len(checkins)])

fupan_stats(user_id, group_id) ==
    LET user_data == load_user_checkin_data(user_id, group_id)
        sorted_checkins == SortByDate(user_data.checkins)
        shown == SubSeq(sorted_checkins, 1,
                        IF Len(sorted_checkins) < RecentLimit
                        THEN Len(sorted_checkins) ELSE RecentLimit)
    IN /\ returned' = <<"fupan_stats", <<user_id, group_id>>,
                        [total_checkins |-> user_data.total_count,
                         strike_count |-> user_data.strike_count,
                         recent |-> [i \in DOMAIN shown |-> shown[i].date]]>>
       /\ last' = Seen("stats", user_id, group_id, <<>>, TRUE, 0)
       /\ UNCHANGED <<now, config, files, group_sessions, xcalDown, window_status, tasks>>

(***************************************************************************)
(* /复盘排行: the rank handler.  listing is os.listdir's order of the files *)
(* of the data directory; the reply shows the entries returned here.       *)
(***************************************************************************)
RankLimit == 10

RankEntry(data) ==
    [user_id |-> data.user_id,
     nickname |-> IF HasKey(data, "nickname") /\ data.nickname # ""
                  THEN data.nickname ELSE data.user_id,
     count |-> IF HasKey(data, "strike_count") THEN data.strike_count ELSE 0]

\* whether the file belongs to the environment the command came from
MatchesScope(group_id, file_path) ==
    \/ IsSet(group_id) /\ Contains(file_path, <<"_group_">> \o group_id \o <<".json">>)
    \/ ~IsSet(group_id) /\ EndsWith(file_path, <<"_dm", ".json">>)

\* rank_data as the loop over all_files leaves it
RECURSIVE RankData(_, _)
RankData(group_id, all_files) ==
    IF all_files = <<>> THEN <<>>
    ELSE (IF MatchesScope(group_id, Head(all_files))
          THEN <<RankEntry(files[Head(all_files)][1])>> ELSE <<>>)
         \o RankData(group_id, Tail(all_files))

\* list.sort(key = count, reverse = True): stable, largest count first
RECURSIVE InsertByCount(_, _)
InsertByCount(sorted, entry) ==
    IF sorted = <<>> THEN <<entry>>
    ELSE IF Head(sorted).count >= entry.count
    THEN <<Head(sorted)>> \o InsertByCount(Tail(sorted), entry)
    ELSE <<entry>> \o sorted

RECURSIVE SortByCount(_)
SortByCount(rank_data) ==
    IF rank_data = <<>> THEN <<>>
    ELSE InsertByCount(SortByCount(SubSeq(rank_data, 1, Len(rank_data) - 1)),
                       rank_data[Len(rank_data)])

FirstN(seq, n) == SubSeq(seq, 1, IF Len(seq) < n THEN Len(seq) ELSE n)

fupan_rank(group_id, all_files) ==
    FirstN(SortByCount(RankData(group_id, all_files)), RankLimit)

(***************************************************************************)
(* The clock.                                                              *)
(***************************************************************************)
NoCommand ==
    [op |-> "none", user_id |-> <<>>, group_id |-> <<>>, arg |-> <<>>, ok |-> FALSE,
     total_count |-> 0, strike_count |-> 0, count |-> 0]

Tick ==
    /\ \E t \in Clock : t > now /\ \A x \in Clock : x > now => t <= x
    /\ now' = CHOOSE t \in Clock : t > now /\ \A x \in Clock : x > now => t <= x
    /\ last' = NoCommand
    /\ UNCHANGED <<config, files, group_sessions, xcalDown, window_status, returned, tasks>>

(***************************************************************************)
(* The plugin: an empty data directory, then commands as the clock runs.   *)
(***************************************************************************)
Init ==
    /\ now = Combine(0, 8)
    /\ config \in {OvernightConfig, GroupOverrideConfig}
    /\ files = [f \in FileNames |-> <<>>]
    /\ group_sessions = << >>
    /\ xcalDown \in {{}, {"non_session_date"}}
    /\ window_status = NoStatus
    /\ last = NoCommand
    /\ returned = <<>>
    /\ tasks = << >>

Checkin ==
    \E u \in UserIds, g \in Scopes, n \in Nicknames, c \in Conclusions, o \in Origins :
        fupan_checkin(u, g, n, c, o)
Revoke == \E u \in UserIds, g \in Scopes : fupan_revoke(u, g)
Reset ==
    \E u \in UserIds, g \in Scopes,
       a \in {<<"dm">>, <<"current">>, <<"help">>} \cup {<<"group">> \o target : target \in GroupIds} :
        fupan_reset(u, g, a)

Next == Tick \/ Checkin \/ Revoke \/ Reset

Spec == Init /\ [][Next]_vars

(***************************************************************************)
(* The plugin without the revoke command: ledgers only grow, or are reset. *)
(***************************************************************************)
NextCheckins == Tick \/ Checkin \/ Reset

SpecCheckins == Init /\ [][NextCheckins]_vars

(***************************************************************************)
(* The window resolver on its own: any global window, any instant of the   *)
(* clock, any set of raising calendar lookups.                             *)
(***************************************************************************)
WindowClock == {Combine(d, h) : d \in 0..MaxDay, h \in {8, 9, 10, 15, 16}}
Lookups == {"is_session", "previous_session", "next_session", "non_session_date"}

InitWindow ==
    /\ now = Combine(0, 8)
    /\ config \in {[fupan_checkin_start_time |-> s, fupan_checkin_end_time |-> e] :
                        s \in TimeStrings, e \in TimeStrings}
    /\ xcalDown \in SUBSET Lookups
    /\ files = [f \in FileNames |-> <<>>]
    /\ group_sessions = << >>
    /\ window_status = NoStatus
    /\ last = NoCommand
    /\ returned = <<>>
    /\ tasks = << >>

ResolveWindow ==
    \E u \in UserIds, g \in Scopes :
        /\ window_status' = <<get_current_trading_status(u, g, now)>>
        /\ UNCHANGED <<now, config, files, group_sessions, xcalDown, last, returned, tasks>>

WindowTick ==
    /\ \E t \in WindowClock : t > now /\ \A x \in WindowClock : x > now => t <= x
    /\ now' = CHOOSE t \in WindowClock : t > now /\ \A x \in WindowClock : x > now => t <= x
    /\ window_status' = NoStatus
    /\ UNCHANGED <<config, files, group_sessions, xcalDown, last, returned, tasks>>

NextWindow == ResolveWindow \/ WindowTick

SpecWindow == InitWindow /\ [][NextWindow]_vars

(***************************************************************************)
(* The plugin with a calendar that may start and stop raising between two  *)
(* commands (a date outside the range the calendar was built for, a broken *)
(* installation): check-ins under the default window as the clock runs.    *)
(***************************************************************************)

InitOutage ==
    /\ now = Combine(0, 8)
    /\ config = OvernightConfig
    /\ files = [f \in FileNames |-> <<>>]
    /\ group_sessions = << >>
    /\ xcalDown = {}
    /\ window_status = NoStatus
    /\ last = NoCommand
    /\ returned = <<>>
    /\ tasks = << >>

Outage ==
    /\ xcalDown' \in {{}, {"is_session"}, {"previous_session", "next_session"}, Lookups} \ {xcalDown}
    /\ last' = NoCommand
    /\ UNCHANGED <<now, config, files, group_sessions, window_status, returned, tasks>>

NextOutage == Tick \/ Checkin \/ Outage

SpecOutage == InitOutage /\ [][NextOutage]_vars

AllLookupsFail == {"is_session", "previous_session", "next_session"} \subseteq xcalDown

\* C16: a lookup of the calendar that fails yields its default (no session, no
\* previous session, no next session) instead of an exception; and while all
\* three lookups fail the window is closed with no bounds, and a check-in is
\* refused and leaves every ledger as it was.
CalendarOutageIsContained ==
    [][/\ "is_session" \in xcalDown => ~is_trading_day(now)
       /\ "previous_session" \in xcalDown => get_previous_trading_day(now) = NoDT
       /\ "next_session" \in xcalDown => get_next_trading_day(now) = NoDT
       /\ AllLookupsFail /\ last'.op = "checkin"
          => LET status == get_current_trading_status(last'.user_id, last'.group_id, now)
             IN /\ ~status.is_in_checkin_window
                /\ status.checkin_start = NoDT
                /\ status.checkin_end = NoDT
                /\ ~last'.ok
                /\ files' = files]_vars

\* a check-in refused while all lookups fail, sent by a user whose ledger was
\* filled while the calendar worked
CalendarOutageWitness ==
    /\ AllLookupsFail
    /\ last.op = "checkin" /\ ~last.ok /\ last.total_count > 0
    /\ get_current_trading_status(last.user_id, last.group_id, now).checkin_start = NoDT

(***************************************************************************)
(* Properties of the ledgers.                                              *)
(***************************************************************************)
Stored == {f \in DOMAIN files : Exists(f)}
Ledger(f) == files[f][1]
LastLedger == load_user_checkin_data(last.user_id, last.group_id)
TradingDays(checkins) == {ParseDate(checkins[i].trading_day) : i \in 1..Len(checkins)}

\* C1: in every stored ledger, after any sequence of check-in, revoke and
\* reset commands from an empty store, total_count is the number of records.
TotalCountIsLength ==
    \A f \in Stored : Ledger(f).total_count = Len(Ledger(f).checkins)

\* a revoke has just taken a ledger from three records to two
TotalCountWitness ==
    /\ last.op = "revoke" /\ last.ok /\ last.total_count = 3
    /\ LastLedger.total_count = 2 /\ Len(LastLedger.checkins) = 2

\* C2: after every mutation of a ledger the cached strike_count is what the
\* from-scratch recompute returns for the ledger's checkins.
StrikeMatchesRecompute ==
    \A f \in Stored :
        Ledger(f).strike_count = calculate_simple_strike_count(Ledger(f).checkins)

\* the run of sessions, each the calendar's next session after the one before,
\* that ends at session d and lies within days
RECURSIVE SessionRun(_, _)
SessionRun(days, d) ==
    IF d \notin days THEN 0 ELSE 1 + SessionRun(days, XcalPreviousSession(d))

\* C3: strike_count is the length of the longest run of distinct trading days
\* that ends at the most recent record's trading_day and in which each trading
\* day is the next session after the one before it.
StrikeIsSessionRun ==
    \A f \in Stored :
        Ledger(f).strike_count =
            IF Ledger(f).checkins = <<>> THEN 0
            ELSE SessionRun(TradingDays(Ledger(f).checkins),
                            ParseDate(Ledger(f).checkins[Len(Ledger(f).checkins)].trading_day))

\* C4: an accepted check-in immediately followed by a revoke of the same ledger
\* leaves total_count and strike_count as they were before the check-in.
RevokeUndoesCheckin ==
    [][(/\ last.op = "checkin" /\ last.ok
        /\ last'.op = "revoke"
        /\ last'.user_id = last.user_id /\ last'.group_id = last.group_id)
       => LET after == files'[get_checkin_data_file(last.user_id, last.group_id)][1]
          IN /\ after.total_count = last.total_count
             /\ after.strike_count = last.strike_count]_vars

\* each record's trading day is the session after the previous record's
Successive(checkins) ==
    \A i \in 1..(Len(checkins) - 1) :
        ParseDate(checkins[i + 1].trading_day) =
            XcalNextSession(ParseDate(checkins[i].trading_day))

\* C5: a ledger built from empty by N accepted check-ins on N successive
\* sessions (weekends and holidays in between included) has strike_count N.
SuccessiveSessionsStrike ==
    \A f \in Stored :
        Successive(Ledger(f).checkins) =>
            Ledger(f).strike_count = Len(Ledger(f).checkins)

\* three check-ins on three successive sessions, a weekend between two of them
SuccessiveSessionsWitness ==
    \E f \in Stored :
        /\ Len(Ledger(f).checkins) = 3
        /\ Successive(Ledger(f).checkins)
        /\ \E i \in 1..2 : ParseDate(Ledger(f).checkins[i + 1].trading_day)
                             > ParseDate(Ledger(f).checkins[i].trading_day) + 1
        /\ Ledger(f).strike_count = 3

\* C6: no two records of a ledger carry the same calendar date string, and a
\* check-in command is accepted only when the ledger held no record of the
\* day: after it, the one record of today's date is the last one.
OncePerCalendarDate ==
    /\ \A f \in Stored :
         \A i, j \in 1..Len(Ledger(f).checkins) :
             Ledger(f).checkins[i].date = Ledger(f).checkins[j].date => i = j
    /\ (last.op = "checkin" /\ last.ok) =>
         \A i \in 1..Len(LastLedger.checkins) :
             LastLedger.checkins[i].date = FormatDate(DateOf(now))
                 => i = Len(LastLedger.checkins)

\* a check-in command has just been rejected because the ledger already holds
\* a record of today's date
OncePerCalendarDateWitness ==
    /\ last.op = "checkin" /\ ~last.ok
    /\ HasCheckinOn(LastLedger.checkins, FormatDate(DateOf(now)))
    /\ get_current_trading_status(last.user_id, last.group_id, now).is_in_checkin_window

\* C7: no two records of a ledger have the same trading_day.
OncePerTradingDay ==
    \A f \in Stored :
        \A i, j \in 1..Len(Ledger(f).checkins) :
            Ledger(f).checkins[i].trading_day = Ledger(f).checkins[j].trading_day
                => i = j

(***************************************************************************)
(* Properties of the window resolver.                                      *)
(***************************************************************************)
StartHour == ParseTime(config.fupan_checkin_start_time)
EndHour == ParseTime(config.fupan_checkin_end_time)
Today == DateOf(now)
InWindow == window_status[1].is_in_checkin_window

\* C8: at an instant whose date is a session (the calendar answering),
\* windowStart is today at startTime, windowEnd is the next session at endTime
\* when endTime < startTime and today at endTime otherwise, and isInWindow is
\* true exactly when windowStart <= now <= windowEnd; with 15:00-09:00, 16:00
\* is inside and 10:00 of the same day is not.
WindowOnSessionDay ==
    (/\ window_status # NoStatus
     /\ XcalIsSession(Today)
     /\ "is_session" \notin xcalDown /\ "next_session" \notin xcalDown)
    => LET windowStart == Today * 24 + StartHour
           windowEnd == IF EndHour < StartHour
                        THEN XcalNextSession(Today) * 24 + EndHour
                        ELSE Today * 24 + EndHour
       IN /\ window_status[1].checkin_start = windowStart
          /\ window_status[1].checkin_end = windowEnd
          /\ InWindow <=> (windowStart <= now /\ now <= windowEnd)
          /\ (StartHour = 15 /\ EndHour = 9 /\ HourOf(now) = 16) => InWindow
          /\ (StartHour = 15 /\ EndHour = 9 /\ HourOf(now) = 10) => ~InWindow

\* 16:00 on a Friday session is inside the 15:00-09:00 window, which ends at
\* 09:00 on the Monday after it
WindowOnSessionDayWitness ==
    /\ window_status # NoStatus /\ xcalDown = {}
    /\ XcalIsSession(Today) /\ ~XcalIsSession(Today + 1)
    /\ StartHour = 15 /\ EndHour = 9 /\ HourOf(now) = 16
    /\ InWindow
    /\ window_status[1].checkin_end = Combine(Today + 3, 9)

\* C9: at an instant whose date is not a session, when the next session and
\* the session before it resolve, the window runs from that reference session
\* at startTime to the next session at endTime and isInWindow is true exactly
\* inside this closed interval; when no next session resolves, isInWindow is
\* false and both bounds are None.
WindowOnClosedDay ==
    (window_status # NoStatus /\ ~XcalIsSession(Today))
    => IF "next_session" \in xcalDown \/ "non_session_date" \in xcalDown
       THEN /\ ~InWindow
            /\ window_status[1].checkin_start = NoDT
            /\ window_status[1].checkin_end = NoDT
       ELSE "previous_session" \notin xcalDown
            => LET nextTradingDay == XcalNextSession(Today)
                   referenceDay == XcalPreviousSession(nextTradingDay)
                   windowStart == referenceDay * 24 + StartHour
                   windowEnd == nextTradingDay * 24 + EndHour
               IN /\ window_status[1].checkin_start = windowStart
                  /\ window_status[1].checkin_end = windowEnd
                  /\ InWindow <=> (windowStart <= now /\ now <= windowEnd)

\* 08:00 on the Saturday after a Friday session is inside the 15:00-09:00 window
WindowOnClosedDayWitness ==
    /\ window_status # NoStatus /\ xcalDown = {}
    /\ Weekday(Today) = 1 /\ XcalIsSession(Today - 1)
    /\ StartHour = 15 /\ EndHour = 9 /\ HourOf(now) = 8
    /\ InWindow
    /\ window_status[1].checkin_start = Combine(Today - 1, 15)
    /\ window_status[1].checkin_end = Combine(Today + 2, 9)

\* C10: with an overnight configuration, at every instant between a session's
\* startTime and the next session's endTime the resolver reports isInWindow.
WindowSpansToNextSessionEnd ==
    (/\ window_status # NoStatus /\ xcalDown = {}
     /\ EndHour < StartHour
     /\ \E T \in (Today - LookAround)..Today :
            /\ XcalIsSession(T)
            /\ Combine(T, StartHour) <= now
            /\ now <= Combine(XcalNextSession(T), EndHour))
    => InWindow

\* C29: on a day that is not a session, when the next session and the session
\* before it resolve, isInWindow holds at every instant, whatever start and
\* end time are configured, a start no later than the end included.
ClosedDayAlwaysOpen ==
    (/\ window_status # NoStatus
     /\ ~XcalIsSession(Today)
     /\ xcalDown \cap {"next_session", "previous_session", "non_session_date"} = {})
    => InWindow

\* 08:00 on a Sunday under the same-day window 15:00-16:00
ClosedDayAlwaysOpenWitness ==
    /\ window_status # NoStatus /\ xcalDown = {}
    /\ Weekday(Today) = 2
    /\ StartHour = 15 /\ EndHour = 16 /\ HourOf(now) = 8
    /\ InWindow
    /\ window_status[1].checkin_start = Combine(Today - 2, 15)
    /\ window_status[1].checkin_end = Combine(Today + 1, 16)

\* C30: whenever the resolver returns bounds, windowStart <= windowEnd,
\* whatever the configuration and whatever the calendar answers.
WindowBoundsOrdered ==
    (window_status # NoStatus /\ window_status[1].checkin_start # NoDT
                              /\ window_status[1].checkin_end # NoDT)
    => window_status[1].checkin_start <= window_status[1].checkin_end

\* C21: with startTime equal to endTime the resolver returns a status, and
\* isInWindow holds only at an instant whose time of day is that time, on
\* sessions and on closed days alike.
ZeroWidthWindow ==
    (window_status # NoStatus /\ StartHour = EndHour)
    => /\ window_status[1].is_in_checkin_window \in BOOLEAN
       /\ InWindow => HourOf(now) = StartHour

(***************************************************************************)
(* The record store under several users and groups: commands that arrive   *)
(* within one hour of a session's window.  The platform hands ids over as  *)
(* opaque strings: one group is called g2_dm.  u1 is the administrator.    *)
(***************************************************************************)
StoreUsers == {<<"u1">>, <<"u2">>}
StoreGroups == {<<"g1">>, <<"g2">>, <<"g2", "_dm">>}
StoreScopes == StoreGroups \cup {<<>>}

InitStore ==
    /\ now = Combine(0, 16)
    /\ config = OvernightConfig
    /\ xcalDown = {}
    /\ files = [f \in {get_checkin_data_file(u, g) : u \in StoreUsers, g \in StoreScopes} |-> <<>>]
    /\ group_sessions = << >>
    /\ window_status = NoStatus
    /\ last = NoCommand
    /\ returned = <<>>
    /\ tasks = << >>

StoreCheckin ==
    \E u \in StoreUsers, g \in StoreScopes, n \in Nicknames, c \in Conclusions,
       o \in Origins :
        fupan_checkin(u, g, n, c, o)
StoreReset ==
    \E u \in {<<"u1">>}, g \in StoreScopes,
       a \in {<<"dm">>, <<"current">>, <<"help">>} \cup {<<"group">> \o target : target \in StoreGroups} :
        fupan_reset(u, g, a)

NextStore == StoreCheckin \/ StoreReset

SpecStore == InitStore /\ [][NextStore]_vars

\* the stored ledgers keyed to (some user, scope)
KeyedTo(scope) == {get_checkin_data_file(u, scope) : u \in StoreUsers} \cap Stored

\* the scope a reset command names: <<TRUE, scope>>, or <<FALSE>> for none
ResetScope(command) ==
    IF command.arg = <<"dm">> THEN <<TRUE, <<>>>>
    ELSE IF command.arg = <<"current">> /\ command.group_id # <<>>
    THEN <<TRUE, command.group_id>>
    ELSE IF Len(command.arg) > 1 /\ command.arg[1] = "group"
    THEN <<TRUE, Tail(command.arg)>>
    ELSE <<FALSE>>

\* C12: a reset of group G deletes exactly the stored ledgers keyed to G, a
\* reset of the direct-message data exactly the dm ledgers; every other ledger
\* is left as it was and the count reported is the number of ledgers removed.
ResetRemovesExactlyScope ==
    [][(last'.op = "reset" /\ ResetScope(last')[1])
       => LET keyed == KeyedTo(ResetScope(last')[2])
          IN /\ \A f \in keyed : files'[f] = <<>>
             /\ \A f \in DOMAIN files \ keyed : files'[f] = files[f]
             /\ last'.count = Cardinality(keyed)]_vars

\* C18: in every ledger that check-in and revoke commands produce,
\* strike_count is a natural number, and it is at least 1 whenever the ledger
\* holds a record.
StrikeCountPositive ==
    \A f \in Stored :
        /\ Ledger(f).strike_count \in Nat
        /\ Ledger(f).checkins # <<>> => Ledger(f).strike_count >= 1

\* a revoke that left records behind, the streak recomputed from scratch
StrikeCountPositiveWitness ==
    /\ last.op = "revoke" /\ last.ok
    /\ Len(LastLedger.checkins) = 2
    /\ LastLedger.strike_count = 1

\* C19: an accepted check-in for trading day d appends its record, adds one to
\* total_count, and sets strike_count by the last record p the ledger held:
\* 1 if there was none; unchanged if d = p.trading_day; one more if
\* d = p.next_trading_day; and 1 otherwise.
IncrementalStrikeRule ==
    [][last'.op = "checkin" /\ last'.ok
       => LET before == load_user_checkin_data(last'.user_id, last'.group_id)
              after == files'[get_checkin_data_file(last'.user_id, last'.group_id)][1]
              d == after.checkins[Len(after.checkins)].trading_day
              p == before.checkins[Len(before.checkins)]
          IN /\ Len(after.checkins) = Len(before.checkins) + 1
             /\ SubSeq(after.checkins, 1, Len(before.checkins)) = before.checkins
             /\ after.total_count = before.total_count + 1
             /\ after.strike_count =
                    IF before.checkins = <<>> THEN 1
                    ELSE IF d = p.trading_day THEN before.strike_count
                    ELSE IF p.next_trading_day = d THEN before.strike_count + 1
                    ELSE 1]_vars

\* an accepted check-in for the trading day of the record before it: the
\* record is appended and the streak stays
SameTradingDayWitness ==
    /\ last.op = "checkin" /\ last.ok /\ last.total_count >= 1
    /\ LET checkins == LastLedger.checkins
       IN /\ Len(checkins) = last.total_count + 1
          /\ checkins[Len(checkins)].trading_day = checkins[Len(checkins) - 1].trading_day
          /\ LastLedger.strike_count = last.strike_count

\* the days of the longest run of calendar days, each one day after the one
\* before, that ends at the latest trading day of the records
CalendarRun(checkins) ==
    LET days == TradingDays(checkins)
    IN {x \in days : \A y \in days : y >= x => \A z \in x..y : z \in days}

Chronological ==
    \A f \in Stored :
        \A i, j \in 1..Len(Ledger(f).checkins) :
            i < j => /\ Ledger(f).checkins[i].timestamp <= Ledger(f).checkins[j].timestamp
                     /\ ParseDate(Ledger(f).checkins[i].date)
                            <= ParseDate(Ledger(f).checkins[j].date)
                     /\ ParseDate(Ledger(f).checkins[i].trading_day)
                            <= ParseDate(Ledger(f).checkins[j].trading_day)

\* C22: an accepted check-in appends one record to the ledger and leaves the
\* records before it as they were, in their order; and, the clock never going
\* back, the timestamps, the dates and the trading days of a ledger's records
\* never decrease along the sequence.
AppendOnlyChronological ==
    [][/\ last'.op = "checkin" /\ last'.ok
          => LET before == load_user_checkin_data(last'.user_id, last'.group_id)
                 after == files'[get_checkin_data_file(last'.user_id, last'.group_id)][1]
             IN /\ Len(after.checkins) = Len(before.checkins) + 1
                /\ \A i \in 1..Len(before.checkins) : after.checkins[i] = before.checkins[i]
                /\ after.checkins[Len(after.checkins)].timestamp = now
       /\ Chronological']_vars

\* a third record appended to a ledger, on a later date than the second
AppendOnlyWitness ==
    /\ last.op = "checkin" /\ last.ok /\ last.total_count = 2
    /\ Len(LastLedger.checkins) = 3
    /\ LastLedger.checkins[3].timestamp = now
    /\ ParseDate(LastLedger.checkins[2].date) < ParseDate(LastLedger.checkins[3].date)

\* a record whose trading_day is the latest session on or before its date and
\* whose next_trading_day is the session that follows it
WellFormedRecord(record) ==
    LET date == ParseDate(record.date)
        trading_day == ParseDate(record.trading_day)
    IN /\ XcalIsSession(trading_day)
       /\ trading_day <= date
       /\ \A x \in (trading_day + 1)..date : ~XcalIsSession(x)
       /\ record.next_trading_day # None
       /\ ParseDate(record.next_trading_day) = XcalNextSession(trading_day)

IneligibleCheckinChangesNothing ==
    [][LET user_data == load_user_checkin_data(last'.user_id, last'.group_id)
           status == get_current_trading_status(last'.user_id, last'.group_id, now)
           today_str == FormatDate(DateOf(now))
           ineligible ==
               \/ ~status.is_in_checkin_window
               \/ \E i \in 1..Len(user_data.checkins) : user_data.checkins[i].date = today_str
       IN last'.op = "checkin" /\ ineligible
          => /\ ~last'.ok
             /\ files' = files
             /\ group_sessions' = group_sessions]_vars

\* a refused check-in that had something to spare: the window is open and the
\* user's ledger already ends with a record dated today
IneligibleCheckinWitness ==
    /\ last.op = "checkin" /\ ~last.ok /\ last.total_count > 0
    /\ get_current_trading_status(last.user_id, last.group_id, now).is_in_checkin_window
    /\ LET user_data == load_user_checkin_data(last.user_id, last.group_id)
       IN /\ user_data.checkins[Len(user_data.checkins)].date = FormatDate(DateOf(now))
          /\ user_data.total_count = last.total_count

(***************************************************************************)
(* The rank command over data directories in which each of two users has,  *)
(* in a direct message and in the group g2_dm, no ledger or a ledger of    *)
(* one or two check-ins (Friday 16:00, Monday 16:00).                      *)
(***************************************************************************)
RankUsers == {<<"u1">>, <<"u2">>}
RankScopes == {<<>>, <<"g2", "_dm">>}
RankFileNames == {get_checkin_data_file(u, g) : u \in RankUsers, g \in RankScopes}

RECURSIVE LedgerAfter(_, _, _)
LedgerAfter(user_id, group_id, k) ==
    IF k = 0 THEN EmptyLedger(user_id)
    ELSE CheckedIn(LedgerAfter(user_id, group_id, k - 1), group_id, "neo",
                   IF k = 1 THEN Combine(0, 16) ELSE Combine(3, 16), "buy")

RankStores ==
    {[f \in RankFileNames |->
        LET key == CHOOSE k \in RankUsers \X RankScopes :
                       get_checkin_data_file(k[1], k[2]) = f
        IN IF n[f] = 0 THEN <<>> ELSE <<LedgerAfter(key[1], key[2], n[f])>>] :
     n \in [RankFileNames -> 0..2]}

Perms(S) == {p \in [1..Cardinality(S) -> S] : \A i, j \in DOMAIN p : p[i] = p[j] => i = j}

InitRank ==
    /\ now = Combine(3, 16)
    /\ config = OvernightConfig
    /\ xcalDown = {}
    /\ files \in RankStores
    /\ group_sessions = << >>
    /\ window_status = NoStatus
    /\ last = NoCommand
    /\ returned = <<>>
    /\ tasks = << >>

Rank ==
    \E g \in RankScopes, all_files \in Perms(get_all_checkin_files) :
        /\ returned' = <<"fupan_rank", <<g, all_files>>, fupan_rank(g, all_files)>>
        /\ UNCHANGED <<now, config, files, group_sessions, xcalDown, window_status, last, tasks>>

NextRank == Rank

SpecRank == InitRank /\ [][NextRank]_vars

\* C14: the rank lists the ledgers keyed to the current scope and no other,
\* largest strike_count first, ledgers of equal strike_count in the order of
\* enumeration, and at most the first 10 of them: a ledger of the scope stands
\* at the place one past the number of ledgers of the scope that beat it.
RankOfScope ==
    returned # <<>> /\ returned[1] = "fupan_rank"
    => LET scope == returned[2][1]
           listing == returned[2][2]
           shown == returned[3]
           inScope == {i \in DOMAIN listing :
                          \E u \in RankUsers : listing[i] = get_checkin_data_file(u, scope)}
           count(i) == files[listing[i]][1].strike_count
           place(i) == 1 + Cardinality({j \in inScope :
                              \/ count(j) > count(i)
                              \/ count(j) = count(i) /\ j < i})
       IN /\ Len(shown) = IF Cardinality(inScope) < 10 THEN Cardinality(inScope) ELSE 10
          /\ \A i \in inScope :
                place(i) <= 10 =>
                    /\ shown[place(i)].user_id = files[listing[i]][1].user_id
                    /\ shown[place(i)].count = count(i)

(***************************************************************************)
(* The registry of group sessions: one user writing from a direct message  *)
(* and from two groups, through either of two sessions of the platform, on *)
(* a Friday afternoon.                                                     *)
(***************************************************************************)
RegistryGroups == {<<"g1">>, <<"g2">>}
RegistryScopes == RegistryGroups \cup {<<>>}
InitRegistry ==
    /\ now = Combine(0, 16)
    /\ config = OvernightConfig
    /\ xcalDown = {}
    /\ files = [f \in {get_checkin_data_file(u, g) : u \in UserIds, g \in RegistryScopes} |-> <<>>]
    /\ group_sessions = << >>
    /\ window_status = NoStatus
    /\ last = NoCommand
    /\ returned = <<>>
    /\ tasks = << >>

RegistryCheckin ==
    \E u \in UserIds, g \in RegistryScopes, n \in Nicknames, c \in Conclusions,
       o \in {"bot:GroupMessage:1", "bot2:GroupMessage:1"} :
        fupan_checkin(u, g, n, c, o)
RegistryRevoke == \E u \in UserIds, g \in RegistryScopes : fupan_revoke(u, g)
RegistryReset ==
    \E u \in UserIds, g \in RegistryScopes,
       a \in {<<"dm">>, <<"current">>} \cup {<<"group">> \o target : target \in RegistryGroups} :
        fupan_reset(u, g, a)
RegistryStats == \E u \in UserIds, g \in RegistryScopes : fupan_stats(u, g)
RegistryRank ==
    \E u \in UserIds, g \in RegistryScopes :
        LET all_files == CHOOSE listing \in Perms(get_all_checkin_files) : TRUE
        IN /\ returned' = <<"fupan_rank", <<g, all_files>>, fupan_rank(g, all_files)>>
           /\ last' = Seen("rank", u, g, <<>>, TRUE, 0)
           /\ UNCHANGED <<now, config, files, group_sessions, xcalDown, window_status, tasks>>

NextRegistry ==
    RegistryCheckin \/ RegistryRevoke \/ RegistryReset
        \/ RegistryStats \/ RegistryRank

SpecRegistry == InitRegistry /\ [][NextRegistry]_vars

\* C24: an accepted check-in sent in group G files the origin of its message
\* under G in the registry of group sessions and leaves the other entries as
\* they were; every other command (a check-in in a direct message, a refused
\* check-in, revoke, rank, stats, reset, that of G's data included) leaves the
\* registry as it was.
RegistryWrittenOnGroupCheckin ==
    [][IF last'.op = "checkin" /\ last'.ok /\ IsSet(last'.group_id)
       THEN /\ DOMAIN group_sessions' = DOMAIN group_sessions \cup {last'.group_id}
            /\ group_sessions'[last'.group_id] = last'.arg[1]
            /\ \A g \in DOMAIN group_sessions :
                   g # last'.group_id => group_sessions'[g] = group_sessions[g]
       ELSE group_sessions' = group_sessions]_vars

\* a check-in in g1 through the second session of the platform, while g2 stays
\* filed under the first
RegistryWitness ==
    /\ last.op = "checkin" /\ last.ok /\ last.group_id = <<"g1">>
    /\ last.arg = <<"bot2:GroupMessage:1">>
    /\ DOMAIN group_sessions = RegistryGroups
    /\ group_sessions[<<"g1">>] = "bot2:GroupMessage:1"
    /\ group_sessions[<<"g2">>] = "bot:GroupMessage:1"

(***************************************************************************)
(* The scheduled broadcast, send_daily_review.  It is a coroutine: it is   *)
(* suspended while the language model answers and while a message is sent, *)
(* and command handlers run meanwhile.  Its frame is tasks.review.         *)
(***************************************************************************)
\* parts[1].replace(".json", "") of file_path.split("_group_")
RECURSIVE UpToGroupMark(_)
UpToGroupMark(s) ==
    IF s = <<>> \/ Head(s) = "_group_" THEN <<>>
    ELSE (IF Head(s) = ".json" THEN <<>> ELSE <<Head(s)>>) \o UpToGroupMark(Tail(s))

RECURSIVE AfterGroupMark(_)
AfterGroupMark(s) ==
    IF s = <<>> THEN <<>>
    ELSE IF Head(s) = "_group_" THEN Tail(s) ELSE AfterGroupMark(Tail(s))

GroupIdsOfFiles ==
    {UpToGroupMark(AfterGroupMark(f)) :
        f \in {x \in get_all_checkin_files : Contains(x, <<"_group_">>)}}

\* the first record of the ledger for the trading day, written in a group
ReviewedOn(data, trading_day) ==
    {i \in 1..Len(data.checkins) :
        /\ data.checkins[i].trading_day = trading_day
        /\ data.checkins[i].context = "group"}

RECURSIVE CollectFrom(_, _, _)
CollectFrom(all_files, group_id, trading_day) ==
    IF all_files = <<>> THEN <<>>
    ELSE LET file_path == Head(all_files)
             user_data == files[file_path][1]
             found == /\ Contains(file_path, <<"_group_">> \o group_id \o <<".json">>)
                      /\ ~IsCorrupt(user_data)
                      /\ ReviewedOn(user_data, trading_day) # {}
         IN (IF found
             THEN <<[user_id |-> user_data.user_id,
                     nickname |-> user_data.nickname,
                     conclusion |->
                         user_data.checkins[Min(ReviewedOn(user_data, trading_day))].conclusion]>>
             ELSE <<>>)
            \o CollectFrom(Tail(all_files), group_id, trading_day)

collect_group_checkins(group_id, trading_day) ==
    CollectFrom(CHOOSE listing \in Perms(get_all_checkin_files) : TRUE, group_id, trading_day)


\* the summary of a group: its id, the conclusions collected, the answer of
\* the language model (asked only when there are conclusions)
generate_group_summary(group_id, review_date, llm_summary) ==
    LET group_checkins == collect_group_checkins(group_id, review_date)
    IN [group_id |-> group_id, group_checkins |-> group_checkins,
        llm_summary |-> IF group_checkins = <<>> THEN "" ELSE llm_summary]

Finished(frame, logged) == [frame EXCEPT !.pc = "done", !.logged = logged]

\* up to the first group summary: the day is checked, the groups are read
\* off the file names
ReviewStart ==
    /\ tasks = << >>
    /\ LET previous_trading_day == get_previous_trading_day(now)
           frame == [pc |-> "summarize", review_date |-> None,
                     group_ids |-> {}, review_content |-> <<>>,
                     registered |-> {}, size |-> 0, remaining |-> <<>>,
                     attempts |-> <<>>, logged |-> "", escaped |-> FALSE]
       IN tasks' =
            [review |->
                IF ~is_trading_day(now) THEN Finished(frame, "not a trading day")
                ELSE IF previous_trading_day = NoDT THEN Finished(frame, "no previous day")
                ELSE IF GroupIdsOfFiles = {} THEN Finished(frame, "no group data")
                ELSE [frame EXCEPT
                        !.review_date = FormatDate(DateOf(previous_trading_day)),
                        !.group_ids = GroupIdsOfFiles]]
    /\ UNCHANGED <<now, config, files, group_sessions, xcalDown, window_status, last,
                   returned>>

\* one turn of the loop over group_ids; after the last, on to the dispatch
ReviewSummarize ==
    /\ DOMAIN tasks = {"review"} /\ tasks.review.pc = "summarize"
    \* the language model answers nothing, or a text
    /\ \E group_id \in tasks.review.group_ids, llm_summary \in {"", "summary"} :
         LET frame == tasks.review
             left == frame.group_ids \ {group_id}
         IN tasks' = [review |->
                [frame EXCEPT
                    !.group_ids = left,
                    !.review_content =
                        Append(@, generate_group_summary(group_id, frame.review_date,
                                                         llm_summary)),
                    !.pc = IF left = {} THEN "dispatch" ELSE "summarize"]]
    /\ UNCHANGED <<now, config, files, group_sessions, xcalDown, window_status, last,
                   returned>>


\* one turn of the loop over group_sessions.items(): the iterator (made on the
\* first turn) refuses to go on when the dict has grown, else the next group
\* is sent the whole of review_content
ReviewSend ==
    /\ DOMAIN tasks = {"review"} /\ tasks.review.pc \in {"dispatch", "sending"}
    \* send_message returns True, or raises
    /\ \E order \in Perms(DOMAIN group_sessions), outcome \in {"sent", "raised"} :
         LET frame == IF tasks.review.pc = "dispatch"
                      THEN [tasks.review EXCEPT
                              !.registered = DOMAIN group_sessions,
                              !.size = Cardinality(DOMAIN group_sessions),
                              !.remaining = order]
                      ELSE tasks.review
         IN tasks' = [review |->
                IF Cardinality(DOMAIN group_sessions) # frame.size
                THEN Finished(frame, "RuntimeError")
                ELSE IF frame.remaining = <<>>
                THEN Finished(frame, "")
                ELSE LET group_id == Head(frame.remaining)
                         session_id == group_sessions[group_id]
                     IN [frame EXCEPT
                            !.pc = "sending",
                            !.remaining = Tail(@),
                            \* the session ids with "GroupMessage" in them
                            !.attempts =
                                IF session_id \in {"bot:GroupMessage:1", "bot2:GroupMessage:1"}
                                THEN Append(@, [group_id |-> group_id,
                                                session_id |-> session_id,
                                                outcome |-> outcome,
                                                text |-> frame.review_content])
                                ELSE @]]
    /\ UNCHANGED <<now, config, files, group_sessions, xcalDown, window_status, last,
                   returned>>

(***************************************************************************)
(* A Monday at 09:00 under an 08:00-16:00 window.  Two users reviewed      *)
(* Friday in the groups g1 and g2, which are registered; while the         *)
(* broadcast runs, u1 reviews in g1 and in g3, a group not seen before,    *)
(* through another session of the platform.                                *)
(***************************************************************************)
BroadcastUsers == {<<"u1">>, <<"u2">>}
BroadcastGroups == {<<"g1">>, <<"g2">>}
LateGroups == {<<"g1">>, <<"g3">>}
BroadcastKeys == (BroadcastUsers \X BroadcastGroups) \cup ({<<"u1">>} \X LateGroups)
MaxReviewed == 2

BroadcastStores ==
    {[f \in {get_checkin_data_file(k[1], k[2]) : k \in BroadcastKeys} |->
        LET key == CHOOSE k \in BroadcastKeys : get_checkin_data_file(k[1], k[2]) = f
        IN IF key \in reviewed THEN <<LedgerAfter(key[1], key[2], 1)>> ELSE <<>>] :
     reviewed \in {r \in SUBSET (BroadcastUsers \X BroadcastGroups) :
                      Cardinality(r) <= MaxReviewed}}

InitBroadcast ==
    /\ now = Combine(3, 9)
    /\ config = [fupan_checkin_start_time |-> "08:00", fupan_checkin_end_time |-> "16:00"]
    /\ xcalDown = {}
    /\ files \in BroadcastStores
    /\ group_sessions = [g \in GroupIdsOfFiles |-> "bot:GroupMessage:1"]
    /\ window_status = NoStatus
    /\ last = NoCommand
    /\ returned = <<>>
    /\ tasks = << >>

BroadcastCheckin ==
    \E g \in LateGroups, n \in Nicknames, c \in Conclusions :
        fupan_checkin(<<"u1">>, g, n, c, "bot2:GroupMessage:1")

NextBroadcast == ReviewStart \/ ReviewSummarize \/ ReviewSend \/ BroadcastCheckin

SpecBroadcast == InitBroadcast /\ [][NextBroadcast]_vars

\* C25: the text the broadcast sends to a registered group G is made of the
\* check-ins in G's ledgers for the reviewed day and of nothing else: it holds
\* no summary of another group.
BroadcastConfined ==
    DOMAIN tasks = {"review"}
    => \A i \in DOMAIN tasks.review.attempts :
           LET attempt == tasks.review.attempts[i]
           IN \A j \in DOMAIN attempt.text : attempt.text[j].group_id = attempt.group_id

\* C26: whatever check-ins run while the broadcast is suspended (one that
\* registers a new group included), once the broadcast has ended every group
\* that was registered when the dispatch began has been attempted exactly
\* once, a send that raised notwithstanding, and no exception has left
\* send_daily_review.
DispatchReachesEveryGroup ==
    (DOMAIN tasks = {"review"} /\ tasks.review.pc = "done")
    => /\ ~tasks.review.escaped
       /\ \A g \in tasks.review.registered :
              Cardinality({i \in DOMAIN tasks.review.attempts :
                              tasks.review.attempts[i].group_id = g}) = 1

(***************************************************************************)
(* Check-in handlers as coroutines.  The platform starts a handler for     *)
(* every /复盘 message it receives; a handler runs until it is suspended   *)
(* or replies, and the others run only then.  tasks[r] is the frame of the *)
(* handler of request r.  All requests arrive on a Friday at 16:00.        *)
(***************************************************************************)
Requests == {"r1", "r2", "r3"}

\* every await is taken for a suspension
EveryAwaitSuspends == TRUE

\* whether "await self.can_user_checkin(...)" suspends the handler: the
\* coroutine awaits nothing itself, so control never returns to the loop
CanUserCheckinSuspends == FALSE

InitConcurrent ==
    /\ now = Combine(0, 16)
    /\ config = OvernightConfig
    /\ xcalDown = {}
    /\ files = [f \in FileNames |-> <<>>]
    /\ group_sessions = << >>
    /\ window_status = NoStatus
    /\ last = NoCommand
    /\ returned = <<>>
    /\ tasks = << >>

\* the platform receives a message and creates the handler's coroutine
Receive ==
    \E r \in Requests \ DOMAIN tasks, u \in UserIds, g \in Scopes, o \in Origins :
        /\ tasks' = (r :> [pc |-> "received", user_id |-> u, group_id |-> g,
                           origin |-> o, accepted |-> FALSE]) @@ tasks
        /\ UNCHANGED <<now, config, files, group_sessions, xcalDown, window_status, last,
                       returned>>

\* the handler runs from where it stands to its next suspension or its reply
RunHandler ==
    \E r \in DOMAIN tasks :
        LET frame == tasks[r]
            can == can_user_checkin(frame.user_id, frame.group_id, now)
            user_data == load_user_checkin_data(frame.user_id, frame.group_id)
            saves == \/ frame.pc = "checked"
                     \/ frame.pc = "received" /\ can[1] /\ ~CanUserCheckinSuspends
        IN /\ frame.pc \in {"received", "checked"}
           /\ tasks' = [tasks EXCEPT ![r] =
                 IF saves THEN [frame EXCEPT !.pc = "replied", !.accepted = TRUE]
                 ELSE IF frame.pc = "received" /\ can[1]
                 THEN [frame EXCEPT !.pc = "checked"]
                 ELSE [frame EXCEPT !.pc = "replied"]]
           /\ IF saves
              THEN /\ files' = save_user_checkin_data(frame.user_id,
                                   CheckedIn(user_data, frame.group_id, "neo", now, "buy"),
                                   frame.group_id)
                   /\ group_sessions' = IF IsSet(frame.group_id)
                                        THEN (frame.group_id :> frame.origin) @@ group_sessions
                                        ELSE group_sessions
              ELSE UNCHANGED <<files, group_sessions>>
           /\ UNCHANGED <<now, config, xcalDown, window_status, last, returned>>

NextConcurrent == Receive \/ RunHandler

SpecConcurrent == InitConcurrent /\ [][NextConcurrent]_vars

\* the handlers of the requests for (user_id, group_id) that have replied
Replied(user_id, group_id) ==
    {r \in DOMAIN tasks : /\ tasks[r].pc = "replied"
                          /\ tasks[r].user_id = user_id
                          /\ tasks[r].group_id = group_id}

\* C27: however the handlers of several check-in requests for one (user,
\* scope) on one date interleave, once any has replied exactly one has been
\* accepted, and the ledger holds exactly one record: none is accepted twice
\* and no accepted record is overwritten.
OneCheckinAmongConcurrent ==
    \A u \in UserIds, g \in Scopes :
        Replied(u, g) # {}
        => /\ Cardinality({r \in Replied(u, g) : tasks[r].accepted}) = 1
           /\ Len(load_user_checkin_data(u, g).checkins) = 1

\* three requests of u1 in group g1, all answered: one accepted, two refused
ConcurrentWitness ==
    /\ Replied(<<"u1">>, <<"g1">>) = Requests
    /\ Cardinality({r \in Requests : tasks[r].accepted}) = 1
    /\ load_user_checkin_data(<<"u1">>, <<"g1">>).total_count = 1

(***************************************************************************)
(* Loading from data directories whose files hold a ledger of this version *)
(* (one or two check-ins), a ledger written before strike_count existed,   *)
(* or bytes that do not make a ledger.                                     *)
(***************************************************************************)
Legacy(ledger) == [k \in DOMAIN ledger \ {"strike_count"} |-> ledger[k]]

LoadStores ==
    {[f \in FileNames |->
        LET key == CHOOSE k \in UserIds \X Scopes : get_checkin_data_file(k[1], k[2]) = f
            ledger == LedgerAfter(key[1], key[2], 2)
        IN CASE c[f] = "absent" -> <<>>
             [] c[f] = "ledger" -> <<ledger>>
             [] c[f] = "legacy" -> <<Legacy(ledger)>>
             [] OTHER -> <<Corrupt(c[f])>>] :
     c \in [FileNames -> {"absent", "ledger", "legacy"} \cup CorruptPayloads]}

InitLoad ==
    /\ now = Combine(3, 16)
    /\ config = OvernightConfig
    /\ xcalDown = {}
    /\ files \in LoadStores
    /\ group_sessions = << >>
    /\ window_status = NoStatus
    /\ last = NoCommand
    /\ returned = <<>>
    /\ tasks = << >>

Load ==
    \E u \in UserIds, g \in Scopes :
        /\ returned' = <<"load_user_checkin_data", <<u, g>>, load_user_checkin_data(u, g)>>
        /\ UNCHANGED <<now, config, files, group_sessions, xcalDown, window_status, last, tasks>>

NextLoad == Load

SpecLoad == InitLoad /\ [][NextLoad]_vars

\* C17: load returns without an exception; for a user with no file, or with a
\* file that does not hold a ledger, it returns the empty ledger of that user;
\* for a ledger without strike_count it returns the ledger with strike_count 0
\* and its other fields as stored; and otherwise the ledger as stored.
LoadNeverFails ==
    returned # <<>> /\ returned[1] = "load_user_checkin_data"
    => LET user_id == returned[2][1]
           data_file == get_checkin_data_file(user_id, returned[2][2])
           data == returned[3]
           stored == files[data_file][1]
       IN /\ ~HasKey(data, "raised")
          /\ ~Exists(data_file) \/ IsCorrupt(stored)
             => data = [user_id |-> user_id, nickname |-> "", checkins |-> <<>>,
                        total_count |-> 0, strike_count |-> 0]
          /\ Exists(data_file) /\ ~IsCorrupt(stored)
             => /\ data.strike_count = IF HasKey(stored, "strike_count")
                                       THEN stored.strike_count ELSE 0
                /\ \A k \in DOMAIN stored \ {"strike_count"} : data[k] = stored[k]
                /\ DOMAIN data = DOMAIN stored \cup {"strike_count"}

(***************************************************************************)
(* The plugin with ids that meet in one file name: user x_group_x in a     *)
(* direct message and user x in the group x_dm; user x also writes in a    *)
(* direct message.  Check-ins and revokes under the default window.        *)
(***************************************************************************)
SharedKeys ==
    {<<<<"x", "_group_", "x">>, <<>>>>, <<<<"x">>, <<"x", "_dm">>>>, <<<<"x">>, <<>>>>}

InitShared ==
    /\ now = Combine(0, 8)
    /\ config = OvernightConfig
    /\ files = [f \in {get_checkin_data_file(k[1], k[2]) : k \in SharedKeys} |-> <<>>]
    /\ group_sessions = << >>
    /\ xcalDown = {}
    /\ window_status = NoStatus
    /\ last = NoCommand
    /\ returned = <<>>
    /\ tasks = << >>

SharedCheckin ==
    \E k \in SharedKeys, n \in Nicknames, c \in Conclusions, o \in Origins :
        fupan_checkin(k[1], k[2], n, c, o)
SharedRevoke == \E k \in SharedKeys : fupan_revoke(k[1], k[2])

NextShared == Tick \/ SharedCheckin \/ SharedRevoke

SpecShared == InitShared /\ [][NextShared]_vars

\* the (user, scope) pairs whose ledger the data directory has a place for
LedgerKeys ==
    {k \in (UserIds \cup {key[1] : key \in SharedKeys})
              \X (Scopes \cup {key[2] : key \in SharedKeys}) :
        get_checkin_data_file(k[1], k[2]) \in DOMAIN files}

\* C23: a check-in or a revoke of user U in scope S leaves the ledger of every
\* other (user, scope) pair as it was: those of other users, and those of U in
\* other scopes.
ScopeIsolation ==
    [][last'.op \in {"checkin", "revoke"}
       => \A k \in LedgerKeys :
              k # <<last'.user_id, last'.group_id>>
              => load_user_checkin_data(k[1], k[2])' = load_user_checkin_data(k[1], k[2])]_vars

(***************************************************************************)
(* The window configuration on its own: every combination of group         *)
(* overrides, user overrides and global settings, asked for by two users   *)
(* from a direct message and from two groups.                              *)
(***************************************************************************)

GroupWindow == [start_time |-> "10:00", end_time |-> "16:00"]
HalfWindow == [start_time |-> "08:00"]           \* an override without end_time

GroupSettings ==
    {<< >>,
     "fupan_checkin_group_time_windows" :> << >>,
     "fupan_checkin_group_time_windows" :> (<<"g1">> :> GroupWindow),
     "fupan_checkin_group_time_windows" :> (<<"g1">> :> HalfWindow),
     "fupan_checkin_group_time_windows" :>
        ((<<>> :> [start_time |-> "08:00", end_time |-> "10:00"]) @@ (<<"g1">> :> GroupWindow))}
UserSettings ==
    {<< >>,
     "fupan_checkin_user_time_windows" :> << >>,
     "fupan_checkin_user_time_windows" :> (<<"u1">> :> [start_time |-> "09:00", end_time |-> "15:00"]),
     "fupan_checkin_user_time_windows" :> (<<"u1">> :> HalfWindow)}

ConfigSpace ==
    {g @@ u @@ s @@ e :
        g \in GroupSettings, u \in UserSettings,
        s \in {<< >>, "fupan_checkin_start_time" :> "16:00"},
        e \in {<< >>, "fupan_checkin_end_time" :> "08:00"}}

InitConfig ==
    /\ now = Combine(0, 8)
    /\ config \in ConfigSpace
    /\ xcalDown = {}
    /\ files = [f \in FileNames |-> <<>>]
    /\ group_sessions = << >>
    /\ window_status = NoStatus
    /\ last = NoCommand
    /\ returned = <<>>
    /\ tasks = << >>

ResolveTimeWindow ==
    \E u \in {<<"u1">>, <<"u2">>}, g \in {<<>>, <<"g1">>, <<"g2">>} :
        /\ returned' = <<"get_time_window_for_context", <<u, g>>,
                         get_time_window_for_context(u, g)>>
        /\ UNCHANGED <<now, config, files, group_sessions, xcalDown, window_status, last, tasks>>

NextConfig == ResolveTimeWindow

SpecConfig == InitConfig /\ [][NextConfig]_vars

\* the overrides of the configuration that carry both times
WellFormed(key) ==
    IF key \in DOMAIN config
    THEN {id \in DOMAIN config[key] :
             {"start_time", "end_time"} \subseteq DOMAIN config[key][id]}
    ELSE {}
GlobalStart == IF "fupan_checkin_start_time" \in DOMAIN config
               THEN config.fupan_checkin_start_time ELSE "15:00"
GlobalEnd == IF "fupan_checkin_end_time" \in DOMAIN config
             THEN config.fupan_checkin_end_time ELSE "09:00"

\* C11: a well-formed override of the request's group wins, otherwise a
\* well-formed override of the user, otherwise the global setting (15:00 and
\* 09:00 where unset); no group override applies to a request without a group
\* id, and an override lacking start_time or end_time is skipped.
WindowPrecedence ==
    returned # <<>> /\ returned[1] = "get_time_window_for_context"
    => LET u == returned[2][1]
           g == returned[2][2]
           groups == WellFormed("fupan_checkin_group_time_windows")
           users == WellFormed("fupan_checkin_user_time_windows")
           chosen == IF g # <<>> /\ g \in groups
                     THEN config.fupan_checkin_group_time_windows[g]
                     ELSE IF u \in users
                     THEN config.fupan_checkin_user_time_windows[u]
                     ELSE [start_time |-> GlobalStart, end_time |-> GlobalEnd]
       IN returned[3] = <<chosen.start_time, chosen.end_time>>

\* u1 asks from a direct message while an override is filed under the empty
\* group id and the override of u1 lacks its end_time: the global default wins
WindowPrecedenceWitness ==
    /\ returned # <<>> /\ returned[1] = "get_time_window_for_context"
    /\ returned[2] = <<<<"u1">>, <<>>>>
    /\ <<>> \in WellFormed("fupan_checkin_group_time_windows")
    /\ "fupan_checkin_user_time_windows" \in DOMAIN config
    /\ <<"u1">> \in DOMAIN config.fupan_checkin_user_time_windows
    /\ <<"u1">> \notin WellFormed("fupan_checkin_user_time_windows")
    /\ returned[3] = <<"15:00", "09:00">>

(***************************************************************************)
(* The storage key on its own: ids are strings the platform chooses, here  *)
(* made of a letter and of the pieces the file names are built from.       *)
(***************************************************************************)
MaxIdLen == 3
IdsUpTo(n) == UNION {[1..k -> {"x", "_group_", "_dm"}] : k \in 1..n}
KeyUsers == IdsUpTo(MaxIdLen)
KeyGroups == IdsUpTo(MaxIdLen - 1)
KeyScopes == KeyGroups \cup {<<>>}

InitKeys ==
    /\ now = Combine(0, 8)
    /\ config = OvernightConfig
    /\ xcalDown = {}
    /\ files = [f \in FileNames |-> <<>>]
    /\ group_sessions = << >>
    /\ window_status = NoStatus
    /\ last = NoCommand
    /\ returned = <<>>
    /\ tasks = << >>

NameFile ==
    \E u \in KeyUsers, g \in KeyScopes :
        /\ returned' = <<"get_checkin_data_file", <<u, g>>, get_checkin_data_file(u, g)>>
        /\ UNCHANGED <<now, config, files, group_sessions, xcalDown, window_status, last, tasks>>

NextKeys == NameFile

SpecKeys == InitKeys /\ [][NextKeys]_vars

\* C13: two different (user id, scope) pairs never get the same file name, and
\* the filters recover the scope from the name: it ends in "_dm.json" exactly
\* for a direct message and contains "_group_<id>.json" exactly for the group
\* it was stored under.
StorageKeyReversible ==
    returned # <<>> /\ returned[1] = "get_checkin_data_file"
    => LET user_id == returned[2][1]
           scope == returned[2][2]
           name == returned[3]
       IN /\ \A u \in KeyUsers, g \in KeyScopes :
                get_checkin_data_file(u, g) = name => u = user_id /\ g = scope
          /\ EndsWith(name, <<"_dm", ".json">>) <=> scope = <<>>
          /\ \A g \in KeyGroups :
                Contains(name, <<"_group_">> \o g \o <<".json">>) <=> scope = g

====
